---------------------------- MODULE Spec2Model ----------------------------
(***************************************************************************)
(* News verification backend (src/backend): the /verify pipeline of       *)
(* main.py, the model-response handling of groq_client.py, the response   *)
(* validation of models.py, query preparation of news_search.py and the   *)
(* thread-pool extraction of extract.py.                                   *)
(*                                                                         *)
(* A Python str is a sequence of one-character strings, so that slicing,   *)
(* split, startswith, lower and len are computed, not assumed.             *)
(***************************************************************************)
EXTENDS Integers, Sequences, FiniteSets, TLC

VARIABLES
    \* ---- one POST /verify request (main.py: verify_news)
    pc,                 \* position of the handler: idle, resolve, search,
                        \* fetch, analyze, done
    raw,                \* the content field of the posted body
    content,            \* request.content, as validated by VerifyRequest
    extracted,          \* what extract_from_url returned for the posted URL
    main_content,
    is_url,
    extraction_failed,
    search_query,       \* the query argument given to search_related_news
    serp_q,             \* the "q" parameter sent to the search collaborator
    related_articles,
    article_texts,      \* what extract_from_url returned for each candidate
                        \* tried so far, in order
    related_contents,
    evidence_links,
    prompt,             \* the prompt sent to the analysis collaborator
    groq_reply,         \* what the analysis collaborator answered
    response,           \* the HTTP response of the request
    \* ---- the extractor's thread pool (extract.py; SpecBatch, SpecPool)
    site,               \* the page each URL serves
    tasks,              \* the extract_from_url calls made so far: the URL,
                        \* where its work item is (queued, running, done)
                        \* and what the call returned
    queue,              \* the executor's work queue, oldest first
    batch,              \* the extract_multiple call: its state, its urls,
                        \* the index before its first task, its result
    \* ---- _prepare_search_query called on its own (SpecQuery)
    q_content,          \* the content argument of the call
    q_result,           \* the query it returned
    q_calls,            \* number of calls made so far
    \* ---- concurrent POST /verify requests sharing the extractor (SpecTwo)
    reqs,               \* the locals of verify_news in each request
    \* ---- search_related_news called on its own (SpecSearch)
    s_num,              \* the num_results argument of the call
    s_answer,           \* what the search collaborator answers
    s_result,           \* the list the call returned
    s_calls             \* number of calls made so far

pvars == <<pc, raw, content, extracted, main_content, is_url, extraction_failed,
           search_query, serp_q, related_articles, article_texts,
           related_contents, evidence_links, prompt, groq_reply, response>>

qvars == <<q_content, q_result, q_calls>>

xvars == <<site, tasks, queue, batch>>

svars == <<s_num, s_answer, s_result, s_calls>>

vars == <<pvars, qvars, xvars, reqs, svars>>

(***************************************************************************)
(* Python str primitives                                                   *)
(***************************************************************************)
Rep(c, n) == [i \in 1..n |-> c]

MinNat(a, b) == IF a <= b THEN a ELSE b

MaxInt(a, b) == IF a >= b THEN a ELSE b

\* s[:n]
Slice(s, n) == SubSeq(s, 1, MinNat(n, Len(s)))

\* s[n:]  (n counts the characters dropped)
Drop(s, n) == SubSeq(s, MinNat(n, Len(s)) + 1, Len(s))

StartsWith(s, p) == Len(s) >= Len(p) /\ SubSeq(s, 1, Len(p)) = p

IsWs(c) == c \in {" ", "\n", "\t"}

\* index of the first character of s satisfying Test, 0 when there is none
FirstIdx(s, Test(_)) ==
    IF \E i \in 1..Len(s) : Test(s[i])
    THEN CHOOSE i \in 1..Len(s) : Test(s[i]) /\ \A j \in 1..(i-1) : ~Test(s[j])
    ELSE 0

\* index of the last character of s satisfying Test, 0 when there is none
LastIdx(s, Test(_)) ==
    IF \E i \in 1..Len(s) : Test(s[i])
    THEN LET n == Len(s)
             k == CHOOSE k \in 1..n :
                     Test(s[n+1-k]) /\ \A j \in 1..(k-1) : ~Test(s[n+1-j])
         IN n + 1 - k
    ELSE 0

\* s.strip()
Strip(s) ==
    LET NotWs(c) == ~IsWs(c)
        a == FirstIdx(s, NotWs)
        b == LastIdx(s, NotWs)
    IN IF a = 0 THEN <<>> ELSE SubSeq(s, a, b)

\* the elements of a finite set of integers in ascending order
RECURSIVE Ascending(_)
Ascending(S) ==
    IF S = {} THEN <<>>
    ELSE LET m == CHOOSE x \in S : \A y \in S : x <= y
         IN <<m>> \o Ascending(S \ {m})

\* s.split(): the maximal runs of non-whitespace characters, in order
Split(s) ==
    LET n == Len(s)
        starts == Ascending({i \in 1..n :
                     ~IsWs(s[i]) /\ (i = 1 \/ IsWs(s[i-1]))})
        ends == Ascending({i \in 1..n :
                     ~IsWs(s[i]) /\ (i = n \/ IsWs(s[i+1]))})
    IN [k \in 1..Len(starts) |-> SubSeq(s, starts[k], ends[k])]

\* sep.join(words)
RECURSIVE Join(_, _)
Join(words, sep) ==
    IF Len(words) = 0 THEN <<>>
    ELSE IF Len(words) = 1 THEN words[1]
    ELSE words[1] \o sep \o Join(Tail(words), sep)

\* s.rsplit(' ', 1)[0]: everything before the last space, s itself when it
\* holds no space
RSplitSpaceHead(s) ==
    LET IsSpace(c) == c = " "
        k == LastIdx(s, IsSpace)
    IN IF k = 0 THEN s ELSE SubSeq(s, 1, k - 1)

\* s.replace(a, b) for single characters a, b
ReplaceChar(s, a, b) == [i \in 1..Len(s) |-> IF s[i] = a THEN b ELSE s[i]]

(***************************************************************************)
(* news_search.py: NewsSearcher._prepare_search_query                     *)
(***************************************************************************)
HttpPrefix == <<"h", "t", "t", "p", ":", "/", "/">>

HttpsPrefix == <<"h", "t", "t", "p", "s", ":", "/", "/">>

WwwPrefix == <<"w", "w", "w", ".">>

QueryHeadLen == 200

QueryMaxLen == 150

\* UrlShaped with the 'www.' prefix forgotten
UrlShapedMutNoWww(word) ==
    \/ StartsWith(word, HttpPrefix)
    \/ StartsWith(word, HttpsPrefix)

\* word.startswith(('http://', 'https://', 'www.'))
UrlShaped(word) ==
    \/ StartsWith(word, HttpPrefix)
    \/ StartsWith(word, HttpsPrefix)
    \/ StartsWith(word, WwwPrefix)

\* lines 114-122: the first 200 characters, stripped, without the URL words,
\* rejoined with single spaces
StripUrls(text) ==
    LET query == Strip(Slice(text, QueryHeadLen))
        words == SelectSeq(Split(query), LAMBDA w : ~UrlShaped(w))
    IN Join(words, <<" ">>)

\* lines 125-126
LimitLength(query) ==
    IF Len(query) > QueryMaxLen
    THEN RSplitSpaceHead(Slice(query, QueryMaxLen))
    ELSE query

PrepareSearchQuery(text) == LimitLength(StripUrls(text))

(***************************************************************************)
(* Values exchanged with the collaborators.  Optional[str] is a record     *)
(* (None has some = FALSE); a JSON value carries its type tag t, its       *)
(* characters s (strings) and its number n (int, bool as 0/1, float in     *)
(* tenths).  A str whose characters are never inspected (a summary, an     *)
(* error message) is held as the sequence of the fragments it is           *)
(* formatted from.                                                         *)
(***************************************************************************)
None == [some |-> FALSE, s |-> <<>>]

Some(str) == [some |-> TRUE, s |-> str]

\* Python truthiness of an Optional[str]
Truthy(opt) == opt.some /\ Len(opt.s) > 0

JStr(str) == [t |-> "str", s |-> str, n |-> 0]

JInt(i) == [t |-> "int", s |-> <<>>, n |-> i]

JFloat(tenths) == [t |-> "float", s |-> <<>>, n |-> tenths]

JBool(b) == [t |-> "bool", s |-> <<>>, n |-> IF b THEN 1 ELSE 0]

JNull == [t |-> "null", s |-> <<>>, n |-> 0]

JArr == [t |-> "array", s |-> <<>>, n |-> 0]

Ok(v) == [ok |-> TRUE, v |-> v, err |-> <<>>]

Raise(msg) == [ok |-> FALSE, v |-> 0, err |-> msg]

(***************************************************************************)
(* models.py: VerifyResponse                                               *)
(***************************************************************************)
UpperChars == <<"A", "B", "C", "D", "E", "F", "G", "H", "I", "J", "K", "L", "M",
                "N", "O", "P", "Q", "R", "S", "T", "U", "V", "W", "X", "Y", "Z">>

LowerChars == <<"a", "b", "c", "d", "e", "f", "g", "h", "i", "j", "k", "l", "m",
                "n", "o", "p", "q", "r", "s", "t", "u", "v", "w", "x", "y", "z">>

\* str.lower()
Lower(str) ==
    [i \in 1..Len(str) |->
        IF \E k \in 1..Len(UpperChars) : UpperChars[k] = str[i]
        THEN LowerChars[CHOOSE k \in 1..Len(UpperChars) : UpperChars[k] = str[i]]
        ELSE str[i]]

VerdictTrue == <<"T", "r", "u", "e">>

VerdictFalse == <<"F", "a", "l", "s", "e">>

VerdictMisleading == <<"M", "i", "s", "l", "e", "a", "d", "i", "n", "g">>

VerdictUnverified == <<"U", "n", "v", "e", "r", "i", "f", "i", "e", "d">>

\* line 76
Allowed == <<VerdictTrue, VerdictFalse, VerdictMisleading, VerdictUnverified>>

\* lines 71-83: the validator of the verdict field, given a str
ValidateVerdict(v) ==
    IF ~\E k \in 1..Len(Allowed) : Allowed[k] = v
    THEN IF \E k \in 1..Len(Allowed) : Lower(v) = Lower(Allowed[k])
         THEN Allowed[CHOOSE k \in 1..Len(Allowed) :
                         /\ Lower(v) = Lower(Allowed[k])
                         /\ \A j \in 1..(k-1) : Lower(v) # Lower(Allowed[j])]
         ELSE VerdictUnverified
    ELSE v

ConfidenceGe == 0

ConfidenceLe == 100

\* lines 48-83: VerifyResponse(**analysis).  A str field takes a str and
\* rejects null and arrays (numbers are coerced or rejected depending on the
\* pydantic version and are not among the values modelled for str fields);
\* the field's type is validated before its validator runs.  The model of
\* the response keeps the verdict as a str, the summary as its fragments.
VerifyResponse(analysis) ==
    IF analysis.verdict.t # "str"
        THEN Raise(<<"1 validation error for VerifyResponse: verdict">>)
    ELSE IF analysis.confidence < ConfidenceGe \/ analysis.confidence > ConfidenceLe
        THEN Raise(<<"1 validation error for VerifyResponse: confidence">>)
    ELSE IF analysis.summary.t # "str"
        THEN Raise(<<"1 validation error for VerifyResponse: summary">>)
    ELSE Ok([verdict |-> ValidateVerdict(analysis.verdict.s),
             confidence |-> analysis.confidence,
             summary |-> analysis.summary.s,
             evidence_links |-> analysis.evidence_links])

(***************************************************************************)
(* groq_client.py: GroqClient.verify_news                                  *)
(*                                                                         *)
(* The text of the model is a sequence of parts: a code fence ```, the     *)
(* language tag json written right after a fence, another language tag     *)
(* (JSON, javascript), prose (text that is not JSON), or a JSON document.  *)
(***************************************************************************)
NoFields == [f \in {} |-> JNull]

Fence == [p |-> "fence", k |-> "none", fields |-> NoFields, items |-> {}]

Lang == [p |-> "lang", k |-> "none", fields |-> NoFields, items |-> {}]

\* a language tag that is not the four characters json
Tag == [p |-> "tag", k |-> "none", fields |-> NoFields, items |-> {}]

Prose == [p |-> "prose", k |-> "none", fields |-> NoFields, items |-> {}]

\* a JSON object with the given members
ObjectDoc(fields) == [p |-> "doc", k |-> "object", fields |-> fields, items |-> {}]

\* a JSON array of the given strings
ArrayDoc(items) == [p |-> "doc", k |-> "array", fields |-> NoFields, items |-> items]

\* a JSON number
NumberDoc == [p |-> "doc", k |-> "number", fields |-> NoFields, items |-> {}]

HasLangFence(text) ==
    \E i \in 1..(Len(text) - 1) : text[i].p = "fence" /\ text[i+1].p = "lang"

HasFence(text) == \E i \in 1..Len(text) : text[i].p = "fence"

\* the parts of text from position from up to the next fence
UpToFence(text, from) ==
    LET stops == {j \in from..Len(text) : text[j].p = "fence"}
        stop == IF stops = {} THEN Len(text) + 1
                ELSE CHOOSE j \in stops : \A m \in stops : j <= m
    IN SubSeq(text, from, stop - 1)

\* lines 194-197: split("```json")[1].split("```")[0], else
\* split("```")[1].split("```")[0], else the text itself
FenceContent(text) ==
    IF HasLangFence(text)
    THEN LET i == CHOOSE i \in 1..(Len(text) - 1) :
                    /\ text[i].p = "fence" /\ text[i+1].p = "lang"
                    /\ \A j \in 1..(i-1) : ~(text[j].p = "fence" /\ text[j+1].p = "lang")
         IN UpToFence(text, i + 2)
    ELSE IF HasFence(text)
    THEN LET i == CHOOSE i \in 1..Len(text) :
                    text[i].p = "fence" /\ \A j \in 1..(i-1) : text[j].p # "fence"
         IN UpToFence(text, i + 1)
    ELSE text

\* line 199: json.loads accepts exactly one JSON document
JsonLoads(parts) ==
    IF Len(parts) = 1 /\ parts[1].p = "doc"
    THEN Ok(parts[1])
    ELSE Raise(<<"JSONDecodeError">>)

DigitChars == <<"0", "1", "2", "3", "4", "5", "6", "7", "8", "9">>

IsDigit(c) == \E k \in 1..10 : DigitChars[k] = c

DigitVal(c) == (CHOOSE k \in 1..10 : DigitChars[k] = c) - 1

RECURSIVE DigitsVal(_)
DigitsVal(ds) ==
    IF Len(ds) = 0 THEN 0
    ELSE 10 * DigitsVal(SubSeq(ds, 1, Len(ds) - 1)) + DigitVal(ds[Len(ds)])

\* int(str): optional surrounding whitespace, optional sign, decimal digits
IntOfStr(str) ==
    LET body == Strip(str)
        signed == Len(body) > 0 /\ body[1] \in {"+", "-"}
        ds == IF signed THEN Tail(body) ELSE body
    IN IF Len(ds) > 0 /\ \A i \in 1..Len(ds) : IsDigit(ds[i])
       THEN Ok(IF signed /\ body[1] = "-" THEN 0 - DigitsVal(ds) ELSE DigitsVal(ds))
       ELSE Raise(<<"invalid literal for int() with base 10">>)

\* line 208: int(value) of a JSON value; a float is truncated towards zero
PyInt(v) ==
    CASE v.t = "int" -> Ok(v.n)
      [] v.t = "bool" -> Ok(v.n)
      [] v.t = "float" -> Ok(IF v.n >= 0 THEN v.n \div 10 ELSE 0 - ((0 - v.n) \div 10))
      [] v.t = "str" -> IntOfStr(v.s)
      [] OTHER -> Raise(<<"int() argument must be a string, a bytes-like object or a real number">>)

\* line 211 without the clamp
ClampMutIdentity(c) == c

\* line 211
Clamp(c) == MaxInt(0, MinNat(100, c))

\* line 202
RequiredFields == <<"verdict", "confidence", "summary">>

\* lines 225-230 carrying the summary of lines 236-241
ParseFallbackMutTechnical ==
    [verdict |-> JStr(VerdictUnverified),
     confidence |-> 0,
     summary |-> JStr(<<"Verification failed due to technical error: ">>),
     evidence_links |-> <<>>]

\* lines 225-230
ParseFallback ==
    [verdict |-> JStr(VerdictUnverified),
     confidence |-> 0,
     summary |-> JStr(<<"Unable to verify: AI response parsing failed">>),
     evidence_links |-> <<>>]

\* lines 232-241 re-raising instead of returning the error response
TechnicalFallbackMutReraise(err) == Raise(err)

\* lines 232-241
TechnicalFallback(err) ==
    Ok([verdict |-> JStr(VerdictUnverified),
        confidence |-> 0,
        summary |-> JStr(<<"Verification failed due to technical error: ">> \o err),
        evidence_links |-> <<>>])

\* lines 199-218: the parsed document turned into the result dictionary
ResultOfDoc(doc) ==
    IF doc.k = "number"
        THEN TechnicalFallback(<<"argument of type 'int' is not iterable">>)
    ELSE IF doc.k = "array" /\ \E k \in 1..3 : RequiredFields[k] \notin doc.items
        THEN TechnicalFallback(<<"Missing required field: ",
                RequiredFields[CHOOSE k \in 1..3 :
                    /\ RequiredFields[k] \notin doc.items
                    /\ \A j \in 1..(k-1) : RequiredFields[j] \in doc.items]>>)
    ELSE IF doc.k = "array"
        THEN TechnicalFallback(<<"list indices must be integers or slices, not str">>)
    ELSE IF \E k \in 1..3 : RequiredFields[k] \notin DOMAIN doc.fields
        THEN TechnicalFallback(<<"Missing required field: ",
                RequiredFields[CHOOSE k \in 1..3 :
                    /\ RequiredFields[k] \notin DOMAIN doc.fields
                    /\ \A j \in 1..(k-1) : RequiredFields[j] \in DOMAIN doc.fields]>>)
    ELSE LET c == PyInt(doc.fields["confidence"])
         IN IF ~c.ok THEN TechnicalFallback(c.err)
            ELSE Ok([verdict |-> doc.fields["verdict"],
                     confidence |-> Clamp(c.v),
                     summary |-> doc.fields["summary"],
                     evidence_links |-> <<>>])

\* lines 163-241: the result of verify_news for the collaborator's reply: the
\* call raised (kind "raise", with the error's text), the message had no
\* content (kind "null"), or it returned text (kind "text")
GroqVerifyNews(reply) ==
    CASE reply.kind = "raise" -> TechnicalFallback(reply.err)
      [] reply.kind = "null" ->
            TechnicalFallback(<<"'NoneType' object has no attribute 'strip'">>)
      [] reply.kind = "text" ->
            LET loaded == JsonLoads(FenceContent(reply.text))
            IN IF loaded.ok THEN ResultOfDoc(loaded.v) ELSE Ok(ParseFallback)

(***************************************************************************)
(* extract.py: ArticleExtractor.  A page is what newspaper's Article       *)
(* yields for a URL: download/parse raised (kind "raise"), or a title and  *)
(* a body text (kind "ok", either may be empty).                           *)
(***************************************************************************)
HeadlinePrefix == <<"H", "E", "A", "D", "L", "I", "N", "E", ":", " ">>

FailedPage == [kind |-> "raise", title |-> <<>>, text |-> <<>>]

Page(title, text) == [kind |-> "ok", title |-> title, text |-> text]

\* lines 90-119
ExtractSync(page) ==
    IF page.kind = "raise" THEN None
    ELSE LET text == IF Len(page.title) > 0
                     THEN HeadlinePrefix \o page.title \o <<"\n", "\n">> \o page.text
                     ELSE page.text
         IN IF Len(text) > 0 THEN Some(Strip(text)) ELSE None

\* lines 27-57: the text, None when the worker returned nothing
ExtractFromUrl(page) ==
    LET article_data == ExtractSync(page)
    IN IF Truthy(article_data) THEN article_data ELSE None

(***************************************************************************)
(* news_search.py: NewsSearcher.search_related_news.  The collaborator's   *)
(* answer either raises or holds news_results and organic_results (an      *)
(* absent key is an empty list); an item is the link of the result.        *)
(***************************************************************************)
SerpFailure == [kind |-> "raise", news |-> <<>>, organic |-> <<>>]

SerpAnswer(news, organic) == [kind |-> "ok", news |-> news, organic |-> organic]

NewsArticle(item) == [url |-> item, source |-> "source"]

OrganicArticle(item) == [url |-> item, source |-> "displayed_link"]

\* lines 73 and 85 without the [:num_results] slices
SearchRelatedNewsMutNoLimit(num_results, answer) ==
    IF answer.kind = "raise" THEN <<>>
    ELSE [i \in 1..Len(answer.news) |-> NewsArticle(answer.news[i])]
            \o [i \in 1..Len(answer.organic) |-> OrganicArticle(answer.organic[i])]

\* lines 48-100: the articles returned for the collaborator's answer
SearchRelatedNews(num_results, answer) ==
    IF answer.kind = "raise" THEN <<>>
    ELSE LET news == [i \in 1..MinNat(num_results, Len(answer.news)) |->
                         NewsArticle(answer.news[i])]
             room == num_results - Len(news)
             organic == IF Len(news) < num_results
                        THEN [i \in 1..MinNat(room, Len(answer.organic)) |->
                                 OrganicArticle(answer.organic[i])]
                        ELSE <<>>
         IN news \o organic

(***************************************************************************)
(* groq_client.py: GroqClient._create_verification_prompt                  *)
(***************************************************************************)
HeadlineTag == <<"H", "E", "A", "D", "L", "I", "N", "E", ":">>

PromptBodyLen == 2500

PromptSources == 5

PromptPreviewLen == 500

\* main_content.split('\n', 2)
SplitLines2(str) ==
    LET IsNl(c) == c = "\n"
        a == FirstIdx(str, IsNl)
        rest == IF a = 0 THEN <<>> ELSE Drop(str, a)
        b == FirstIdx(rest, IsNl)
    IN IF a = 0 THEN <<str>>
       ELSE IF b = 0 THEN <<SubSeq(str, 1, a - 1), rest>>
       ELSE <<SubSeq(str, 1, a - 1), SubSeq(rest, 1, b - 1), Drop(rest, b)>>

\* lines 62-98: the headline, the body and the sources written into the prompt
CreateVerificationPrompt(text, articles) ==
    LET lines == SplitLines2(text)
        tagged == StartsWith(text, HeadlineTag)
        headline == IF tagged THEN Strip(Drop(lines[1], Len(HeadlineTag))) ELSE <<>>
        content_body == IF ~tagged THEN text
                        ELSE IF Len(lines) > 2 THEN lines[3]
                        ELSE IF Len(lines) > 1 THEN lines[2]
                        ELSE <<>>
    IN [headline |-> headline,
        content |-> Slice(content_body, PromptBodyLen),
        sources |-> [i \in 1..MinNat(PromptSources, Len(articles)) |->
                        [url |-> articles[i].url,
                         source |-> articles[i].source,
                         text |-> Slice(articles[i].text, PromptPreviewLen)]]]

(***************************************************************************)
(* models.py: VerifyRequest                                                *)
(***************************************************************************)
ContentMinLength == 10

ContentMaxLength == 10000

\* lines 20-38: the length bounds of the field, then validate_content
VerifyRequest(body) ==
    IF Len(body) < ContentMinLength THEN Raise(<<"ensure this value has at least 10 characters">>)
    ELSE IF Len(body) > ContentMaxLength THEN Raise(<<"ensure this value has at most 10000 characters">>)
    ELSE IF Len(Strip(body)) = 0 THEN Raise(<<"Content cannot be empty">>)
    ELSE Ok(Strip(body))

(***************************************************************************)
(* main.py: verify_news                                                    *)
(***************************************************************************)
NumResults == 10

MeaningfulLen == 50

SearchQueryLen == 500

ArticleTextLen == 1000

MaxEvidenceLinks == 5

\* the characters of str before the first character satisfying Test
Before(str, Test(_)) ==
    LET k == FirstIdx(str, Test) IN IF k = 0 THEN str ELSE SubSeq(str, 1, k - 1)

\* urlparse(url).netloc of an http:// or https:// URL
Netloc(url) ==
    LET EndsNetloc(c) == c \in {"/", "?", "#"}
        after == IF StartsWith(url, HttpsPrefix) THEN Drop(url, Len(HttpsPrefix))
                 ELSE Drop(url, Len(HttpPrefix))
    IN Before(after, EndsNetloc)

\* urlparse(url).path of an http:// or https:// URL
UrlPath(url) ==
    LET EndsPath(c) == c \in {"?", "#"}
        after == IF StartsWith(url, HttpsPrefix) THEN Drop(url, Len(HttpsPrefix))
                 ELSE Drop(url, Len(HttpPrefix))
    IN Before(Drop(after, Len(Netloc(url))), EndsPath)

\* line 144
Placeholder(url) ==
    <<"N", "e", "w", "s", " ", "a", "r", "t", "i", "c", "l", "e", " ", "f", "r", "o", "m", " ">>
        \o Netloc(url) \o <<" ", "-", " ">> \o ReplaceChar(UrlPath(url), "/", " ")

\* line 128
IsUrl(str) == StartsWith(str, HttpPrefix) \/ StartsWith(str, HttpsPrefix)

\* line 157
SearchQueryOf(failed, resolved, posted) ==
    IF ~failed THEN Slice(resolved, SearchQueryLen) ELSE posted

\* line 190 taking every candidate
KeepArticleMutAlways(article_text) == TRUE

\* line 190
KeepArticle(article_text) == Truthy(article_text)

\* line 187 leaving the loop after the first candidate
AfterFetchMutEarly(tried, candidates) == "analyze"

\* line 187: the loop goes on until every candidate has been tried
AfterFetch(tried, candidates) == IF tried = candidates THEN "analyze" ELSE "fetch"

\* line 214 without the [:5] slice
TopLinksMutAll(links) == links

\* line 214
TopLinks(links) == Slice(links, MaxEvidenceLinks)

NoResponse ==
    [status |-> 0, verdict |-> <<>>, confidence |-> 0, summary |-> <<>>,
     evidence_links |-> <<>>, detail |-> <<>>]

\* a 200 response carrying a VerifyResponse
Response200(v) ==
    [status |-> 200, verdict |-> v.verdict, confidence |-> v.confidence,
     summary |-> v.summary, evidence_links |-> v.evidence_links, detail |-> <<>>]

\* an error response: HTTPException(status_code, detail)
ResponseError(status, detail) ==
    [status |-> status, verdict |-> <<>>, confidence |-> 0, summary |-> <<>>,
     evidence_links |-> <<>>, detail |-> detail]

NoPrompt == [headline |-> <<>>, content |-> <<>>, sources |-> <<>>]

NoReply == [kind |-> "none", err |-> <<>>, text |-> <<>>]

\* the analysis call raised an error whose text is err
GroqRaise(err) == [kind |-> "raise", err |-> err, text |-> <<>>]

\* the completion's message had no content
GroqNull == [kind |-> "null", err |-> <<>>, text |-> <<>>]

\* the completion's message content
GroqText(text) == [kind |-> "text", err |-> <<>>, text |-> text]

\* lines 206-225: the response built from the result of groq_client.verify_news
RespondAnalysis(result, links) ==
    IF ~result.ok
    THEN ResponseError(500, <<"AI analysis failed: ">> \o result.err)
    ELSE LET analysis == [result.v EXCEPT !.evidence_links = TopLinks(links)]
             validated == VerifyResponse(analysis)
         IN IF validated.ok THEN Response200(validated.v)
            ELSE ResponseError(500, <<"AI analysis failed: ">> \o validated.err)

(***************************************************************************)
(* extract.py: the ThreadPoolExecutor of ArticleExtractor.__init__ and the *)
(* calls that go through it.  submit puts a work item on the queue; one of *)
(* at most max_workers threads takes the oldest item, runs _extract_sync   *)
(* and sets the future, on which extract_from_url resumes.                 *)
(***************************************************************************)
MaxWorkers == 5

Running == {t \in 1..Len(tasks) : tasks[t].st = "running"}

\* a pool that starts a thread for every work item
WorkerFreeMutUnbounded == TRUE

\* line 24: max_workers threads at most
WorkerFree == Cardinality(Running) < MaxWorkers

\* lines 42-46: run_in_executor submits _extract_sync(url)
Submitted(url) == [url |-> url, st |-> "queued", result |-> None]

NoBatch == [st |-> "none", urls |-> <<>>, first |-> 0, result |-> <<>>]

\* the results without the failed ones
GatherMutDropFailed(urls, first) ==
    SelectSeq([i \in 1..Len(urls) |-> tasks[first + i].result], LAMBDA r : r.some)

\* line 173: asyncio.gather returns the results in the order of its arguments
Gather(urls, first) == [i \in 1..Len(urls) |-> tasks[first + i].result]

\* lines 176-182: zip(urls, results) into a dict, a later pair replacing an
\* earlier one with the same URL
UrlToText(urls, results) ==
    LET n == MinNat(Len(urls), Len(results))
    IN [u \in {urls[i] : i \in 1..n} |->
           results[CHOOSE i \in 1..n :
                      urls[i] = u /\ \A j \in (i+1)..n : urls[j] # u]]

\* lines 156-170: extract_multiple(urls) is called
StartBatch(urls) ==
    /\ batch.st = "none"
    /\ batch' = [st |-> IF Len(urls) = 0 THEN "waiting" ELSE "submitting",
                 urls |-> urls, first |-> Len(tasks), result |-> <<>>]
    /\ UNCHANGED <<site, tasks, queue, pvars, qvars, reqs, svars>>

\* lines 170-173 with lines 37-46: the next task of the gather starts and
\* awaits its work item
BatchSubmit ==
    /\ batch.st = "submitting"
    /\ LET k == Len(tasks) - batch.first
       IN /\ tasks' = Append(tasks, Submitted(batch.urls[k + 1]))
          /\ queue' = Append(queue, Len(tasks) + 1)
          /\ batch' = [batch EXCEPT !.st = IF k + 1 = Len(batch.urls)
                                           THEN "waiting" ELSE "submitting"]
    /\ UNCHANGED <<site, pvars, qvars, reqs, svars>>

\* lines 27-46: a request's extract_from_url(url) awaits its work item; the
\* tasks of a gather take their first steps back to back on the event loop,
\* so no other coroutine submits between them
CallExtract(url) ==
    /\ batch.st # "submitting"
    /\ tasks' = Append(tasks, Submitted(url))
    /\ queue' = Append(queue, Len(tasks) + 1)
    /\ UNCHANGED <<site, batch, pvars, qvars, reqs, svars>>

\* a free thread of the pool takes the oldest work item
WorkerStart ==
    /\ Len(queue) > 0
    /\ WorkerFree
    /\ tasks' = [tasks EXCEPT ![Head(queue)].st = "running"]
    /\ queue' = Tail(queue)
    /\ UNCHANGED <<site, batch, pvars, qvars, reqs, svars>>

\* lines 90-119 and 48-57: _extract_sync ends and extract_from_url returns
WorkerFinish(t) ==
    /\ tasks[t].st = "running"
    /\ tasks' = [tasks EXCEPT ![t].st = "done",
                              ![t].result = ExtractFromUrl(site[tasks[t].url])]
    /\ UNCHANGED <<site, queue, batch, pvars, qvars, reqs, svars>>

\* lines 173-187: every task of the gather has returned
BatchGather ==
    /\ batch.st = "waiting"
    /\ \A i \in 1..Len(batch.urls) : tasks[batch.first + i].st = "done"
    /\ batch' = [batch EXCEPT
                    !.st = "done",
                    !.result = UrlToText(batch.urls, Gather(batch.urls, batch.first))]
    /\ UNCHANGED <<site, tasks, queue, pvars, qvars, reqs, svars>>

(***************************************************************************)
(* The pages and the calls the pool runs draw from                         *)
(***************************************************************************)
\* the largest batch given to extract_multiple
MaxBatch == 3

\* the extract_from_url calls made by requests beside the batch
MaxCalls == 3

Url(i) == <<"u", DigitChars[i + 1]>>

BatchUrlSet == {Url(i) : i \in 1..MaxBatch}

CallUrlSet == {Url(MaxBatch + i) : i \in 1..MaxCalls}

TextPage(url) == Page(<<"T">>, <<"b", "o", "d", "y", " ">> \o url)

\* a batch of n distinct URLs
BatchOf(n) == [i \in 1..n |-> Url(n + 1 - i)]

XIdle ==
    /\ site = [u \in BatchUrlSet \cup CallUrlSet |-> TextPage(u)]
    /\ tasks = <<>>
    /\ queue = <<>>
    /\ batch = NoBatch

\* no concurrent requests, no search call on its own
TIdle ==
    /\ reqs = <<>>
    /\ s_num = 0
    /\ s_answer = SerpFailure
    /\ s_result = <<>>
    /\ s_calls = 0

(***************************************************************************)
(* The collaborators' answers and the posted bodies the runs draw from     *)
(***************************************************************************)
\* news_results and organic_results hold at most this many items
MaxNews == 3

MaxOrganic == 3

TextContent ==
    <<"B", "r", "e", "a", "k", "i", "n", "g", " ", "n", "e", "w", "s", " ", "a", "b",
      "o", "u", "t", " ", "t", "h", "e", " ", "e", "c", "o", "n", "o", "m", "y">>

UrlContent ==
    <<"h", "t", "t", "p", "s", ":", "/", "/", "n", "e", "w", "s", ".", "e", "x", "a",
      "m", "p", "l", "e", ".", "c", "o", "m", "/", "s", "t", "o", "r", "y", "-", "1">>

PaddedContent ==
    <<" ", " ", " ", "t", "o", "o", " ", "s", "h", "o", "r", "t", " ", " ", " ">>

PostedContents ==
    {TextContent, UrlContent, PaddedContent, <<"t", "i", "n", "y">>,
     Rep(" ", 12), Rep("z", 10001)}

\* the page of the posted URL: unreachable, 10 characters of text, nothing,
\* a titled article
MainPages ==
    {FailedPage, Page(<<>>, Rep("x", 10)), Page(<<>>, <<>>),
     Page(<<"T", "i", "t", "l", "e">>, Rep("x", 60))}

\* the page of a candidate: unreachable, nothing, a titled article
CandidatePages == {FailedPage, Page(<<>>, <<>>), Page(<<"T">>, Rep("y", 12))}

NewsLink(i) == <<"n", DigitChars[i + 1]>>

OrganicLink(i) == <<"o", DigitChars[i + 1]>>

SerpAnswers ==
    {SerpFailure} \cup
    { SerpAnswer([i \in 1..a |-> NewsLink(i)], [i \in 1..b |-> OrganicLink(i)]) :
        a \in 0..MaxNews, b \in 0..MaxOrganic }

Fields(verdict, confidence, summary) ==
    [f \in {"verdict", "confidence", "summary"} |->
        CASE f = "verdict" -> verdict
          [] f = "confidence" -> confidence
          [] f = "summary" -> summary]

\* fields without the member named drop
Without(fields, drop) == [f \in (DOMAIN fields) \ {drop} |-> fields[f]]

VerdictValues ==
    {JStr(VerdictTrue), JStr(VerdictFalse), JStr(VerdictMisleading),
     JStr(VerdictUnverified), JStr(<<"t", "r", "u", "e">>),
     JStr(<<"M", "I", "S", "L", "E", "A", "D", "I", "N", "G">>),
     JStr(<<"M", "o", "s", "t", "l", "y", " ", "T", "r", "u", "e">>),
     JStr(<<>>), JNull, JArr}

ConfidenceValues ==
    {JInt(0 - 20), JInt(0), JInt(85), JInt(100), JInt(150), JFloat(997),
     JFloat(0 - 5), JFloat(1004), JStr(<<"8", "5">>), JStr(<<"a", "b", "c">>),
     JStr(<<>>), JNull, JBool(TRUE), JArr}

SummaryValues == {JStr(<<"x">>), JNull}

\* every verdict with a plain confidence, every confidence with a verdict
\* that needs normalising, every summary, and each member missing in turn
ModelObjects ==
    { Fields(v, JInt(85), JStr(<<"x">>)) : v \in VerdictValues } \cup
    { Fields(JStr(<<"t", "r", "u", "e">>), c, JStr(<<"x">>)) : c \in ConfidenceValues } \cup
    { Fields(JStr(VerdictFalse), JInt(40), sm) : sm \in SummaryValues } \cup
    { Without(Fields(JStr(VerdictTrue), JInt(85), JStr(<<"x">>)), f) :
        f \in {"verdict", "confidence", "summary"} }

ModelDocs ==
    { ObjectDoc(fs) : fs \in ModelObjects } \cup
    {ArrayDoc({}), ArrayDoc({"verdict", "confidence", "summary"}), NumberDoc}

\* the documents also sent wrapped in code fences
FencedDocs ==
    {ObjectDoc(Fields(JStr(<<"t", "r", "u", "e">>), JInt(150), JStr(<<"x">>))),
     ObjectDoc(Fields(JNull, JInt(85), JStr(<<"x">>)))}

ModelTexts ==
    { <<d>> : d \in ModelDocs } \cup
    {<<Prose>>, <<>>, <<Fence, Prose, Fence>>, <<Fence, Lang, Prose, Fence>>} \cup
    UNION { { <<Fence, Lang, d, Fence>>, <<Prose, Fence, Lang, d, Fence, Prose>>,
              <<Fence, d, Fence>>, <<Fence, Lang, d>>, <<Prose, d>>, <<Lang, d>>,
              <<Fence, Tag, d, Fence>> } :
            d \in FencedDocs }

GroqReplies ==
    {GroqRaise(<<"Connection error.">>), GroqNull} \cup
    { GroqText(text) : text \in ModelTexts }

(***************************************************************************)
(* main.py: one POST /verify request, one step per await of verify_news    *)
(***************************************************************************)
PInit ==
    /\ pc = "idle"
    /\ raw = <<>>
    /\ content = <<>>
    /\ extracted = None
    /\ main_content = <<>>
    /\ is_url = FALSE
    /\ extraction_failed = FALSE
    /\ search_query = <<>>
    /\ serp_q = None
    /\ related_articles = <<>>
    /\ article_texts = <<>>
    /\ related_contents = <<>>
    /\ evidence_links = <<>>
    /\ prompt = NoPrompt
    /\ groq_reply = NoReply
    /\ response = NoResponse

QIdle ==
    /\ q_content = <<>>
    /\ q_result = <<>>
    /\ q_calls = 0

Init == PInit /\ QIdle /\ XIdle /\ TIdle

\* models.py lines 20-38: the body is validated before the handler runs; a
\* rejected body is answered 422
Receive ==
    /\ pc = "idle"
    /\ \E body \in PostedContents :
          LET request == VerifyRequest(body)
          IN /\ raw' = body
             /\ content' = IF request.ok THEN request.v ELSE content
             /\ pc' = IF request.ok THEN "resolve" ELSE "done"
             /\ response' = IF request.ok THEN response
                            ELSE ResponseError(422, request.err)
    /\ UNCHANGED <<extracted, main_content, is_url, extraction_failed, search_query, serp_q,
                   related_articles, article_texts, related_contents,
                   evidence_links, prompt, groq_reply, qvars, xvars, reqs, svars>>

\* main.py lines 126-151, step 1 for a URL: extract_from_url never raises, so
\* the handler of line 145 has no run
ResolveUrl ==
    /\ pc = "resolve"
    /\ IsUrl(content)
    /\ \E page \in MainPages :
          LET text == ExtractFromUrl(page)
          IN /\ extracted' = text
             /\ IF Truthy(text) /\ Len(text.s) > MeaningfulLen
                THEN /\ main_content' = text.s
                     /\ extraction_failed' = FALSE
                ELSE /\ main_content' = Placeholder(content)
                     /\ extraction_failed' = TRUE
    /\ is_url' = TRUE
    /\ pc' = "search"
    /\ UNCHANGED <<raw, content, search_query, serp_q, related_articles,
                   article_texts, related_contents, evidence_links, prompt,
                   groq_reply, response, qvars, xvars, reqs, svars>>

\* main.py lines 126-131, step 1 for text
ResolveText ==
    /\ pc = "resolve"
    /\ ~IsUrl(content)
    /\ main_content' = content
    /\ is_url' = FALSE
    /\ extraction_failed' = FALSE
    /\ pc' = "search"
    /\ UNCHANGED <<raw, content, extracted, search_query, serp_q, related_articles,
                   article_texts, related_contents, evidence_links, prompt,
                   groq_reply, response, qvars, xvars, reqs, svars>>

\* main.py lines 153-185, step 2: search_related_news absorbs every failure
\* of the collaborator, so the handler of line 169 has no run
Search ==
    /\ pc = "search"
    /\ \E answer \in SerpAnswers :
          LET query == SearchQueryOf(extraction_failed, main_content, content)
              articles == SearchRelatedNews(NumResults, answer)
          IN /\ search_query' = query
             /\ serp_q' = Some(PrepareSearchQuery(query))
             /\ related_articles' = articles
             /\ pc' = IF Len(articles) = 0 THEN "analyze" ELSE "fetch"
    /\ UNCHANGED <<raw, content, extracted, main_content, is_url, extraction_failed,
                   article_texts, related_contents, evidence_links, prompt,
                   groq_reply, response, qvars, xvars, reqs, svars>>

\* main.py lines 187-200, step 3: one iteration of the loop over the
\* candidates
Fetch ==
    /\ pc = "fetch"
    /\ \E page \in CandidatePages :
          LET article == related_articles[Len(article_texts) + 1]
              article_text == ExtractFromUrl(page)
          IN /\ article_texts' = Append(article_texts, article_text)
             /\ IF KeepArticle(article_text)
                THEN /\ related_contents' =
                            Append(related_contents,
                                   [url |-> article.url,
                                    source |-> article.source,
                                    text |-> Slice(article_text.s, ArticleTextLen)])
                     /\ evidence_links' = Append(evidence_links, article.url)
                ELSE UNCHANGED <<related_contents, evidence_links>>
    /\ pc' = AfterFetch(Len(article_texts) + 1, Len(related_articles))
    /\ UNCHANGED <<raw, content, extracted, main_content, is_url, extraction_failed,
                   search_query, serp_q, related_articles, prompt, groq_reply,
                   response, qvars, xvars, reqs, svars>>

\* main.py lines 204-225 with groq_client.py lines 163-241, step 4
Analyze ==
    /\ pc = "analyze"
    /\ \E reply \in GroqReplies :
          /\ groq_reply' = reply
          /\ response' = RespondAnalysis(GroqVerifyNews(reply), evidence_links)
    /\ prompt' = CreateVerificationPrompt(main_content, related_contents)
    /\ pc' = "done"
    /\ UNCHANGED <<raw, content, extracted, main_content, is_url, extraction_failed,
                   search_query, serp_q, related_articles, article_texts,
                   related_contents, evidence_links, qvars, xvars, reqs, svars>>

Next == Receive \/ ResolveUrl \/ ResolveText \/ Search \/ Fetch \/ Analyze

Spec == Init /\ [][Next]_vars

(***************************************************************************)
(* extract.py: extract_multiple on its own (SpecBatch), and the pool shared *)
(* by a batch and the requests' own extractions (SpecPool)                 *)
(***************************************************************************)
\* every batch URL is unreachable, serves nothing or serves its article
BatchInit ==
    /\ PInit
    /\ QIdle
    /\ TIdle
    /\ \E kind \in [BatchUrlSet -> {"raise", "empty", "text"}] :
          site = [u \in BatchUrlSet \cup CallUrlSet |->
                     IF u \in BatchUrlSet /\ kind[u] = "raise" THEN FailedPage
                     ELSE IF u \in BatchUrlSet /\ kind[u] = "empty" THEN Page(<<>>, <<>>)
                     ELSE TextPage(u)]
    /\ tasks = <<>>
    /\ queue = <<>>
    /\ batch = NoBatch

BatchNext ==
    \/ \E n \in 0..MaxBatch : StartBatch(BatchOf(n))
    \/ BatchSubmit
    \/ WorkerStart
    \/ \E t \in 1..Len(tasks) : WorkerFinish(t)
    \/ BatchGather

SpecBatch == BatchInit /\ [][BatchNext]_vars

PoolInit ==
    /\ PInit
    /\ QIdle
    /\ TIdle
    /\ site = [u \in BatchUrlSet \cup CallUrlSet |->
                  IF u = Url(1) THEN FailedPage ELSE TextPage(u)]
    /\ tasks = <<>>
    /\ queue = <<>>
    /\ batch = NoBatch

\* the requests call extract_from_url on their URLs in turn
NextCall ==
    /\ Len(tasks) - (IF batch.st = "none" THEN 0 ELSE Len(batch.urls)) < MaxCalls
    /\ \E i \in 1..MaxCalls :
          /\ \A t \in 1..Len(tasks) : tasks[t].url # Url(MaxBatch + i)
          /\ \A j \in 1..(i-1) : \E t \in 1..Len(tasks) : tasks[t].url = Url(MaxBatch + j)
          /\ CallExtract(Url(MaxBatch + i))

PoolNext ==
    \/ StartBatch(BatchOf(MaxBatch))
    \/ BatchSubmit
    \/ NextCall
    \/ WorkerStart
    \/ \E t \in 1..Len(tasks) : WorkerFinish(t)
    \/ BatchGather

SpecPool == PoolInit /\ [][PoolNext]_vars

\* a started _extract_sync ends and a free thread takes the oldest work item
FairSpecPool ==
    /\ SpecPool
    /\ WF_vars(WorkerStart)
    /\ WF_vars(\E t \in 1..Len(tasks) : WorkerFinish(t))

(***************************************************************************)
(* extract.py: one extract_from_url call on a page of any shape            *)
(* (SpecExtract)                                                           *)
(***************************************************************************)
\* titles of a page: none, short, with blanks around it
PageTitles == {<<>>, <<"T">>, <<"T", "i", "t", "l", "e">>, <<" ", "T", " ">>}

\* body texts of a page: none, blank, short, padded, of several lines, long
PageTexts ==
    {<<>>, <<" ">>, <<"\n", "\n">>, <<"b">>, <<"b", "o", "d", "y">>,
     <<" ", "b", "o", "d", "y", " ">>, <<"a", "\n", "b">>, <<"b", "\n">>,
     Rep("x", 51), Rep("y", 12)}

ExtractPages == {FailedPage} \cup { Page(t, b) : t \in PageTitles, b \in PageTexts }

ExtractInit ==
    /\ PInit
    /\ QIdle
    /\ TIdle
    /\ \E page \in ExtractPages : site = [u \in {Url(1)} |-> page]
    /\ tasks = <<>>
    /\ queue = <<>>
    /\ batch = NoBatch

\* the one call of the run
ExtractCall ==
    /\ Len(tasks) = 0
    /\ CallExtract(Url(1))

ExtractNext ==
    \/ ExtractCall
    \/ WorkerStart
    \/ \E t \in 1..Len(tasks) : WorkerFinish(t)

SpecExtract == ExtractInit /\ [][ExtractNext]_vars

(***************************************************************************)
(* news_search.py: one search_related_news call with any limit             *)
(* (SpecSearch)                                                            *)
(***************************************************************************)
\* the num_results arguments of the call: none, fewer than the news
\* results, fewer than news and organic results together, more than both
SearchLimits == {0, 1, 2, MaxNews + 1, NumResults}

SearchInit ==
    /\ PInit
    /\ QIdle
    /\ XIdle
    /\ reqs = <<>>
    /\ s_num \in SearchLimits
    /\ s_answer \in SerpAnswers
    /\ s_result = <<>>
    /\ s_calls = 0

\* one call of search_related_news on the limit and the answer drawn
SearchCall ==
    /\ s_calls = 0
    /\ s_result' = SearchRelatedNews(s_num, s_answer)
    /\ s_calls' = 1
    /\ UNCHANGED <<s_num, s_answer, pvars, qvars, xvars, reqs>>

SearchNext == SearchCall

SpecSearch == SearchInit /\ [][SearchNext]_vars

(***************************************************************************)
(* main.py: two POST /verify requests running concurrently on the event    *)
(* loop (SpecTwo).  Each run of verify_news has its own locals; the        *)
(* requests share the module's groq_client, news_searcher and              *)
(* article_extractor (lines 23-26, 40-42), of which only the extractor's   *)
(* thread pool changes while requests run.  A request steps from one await *)
(* to the next; what the collaborators answer to it is fixed beforehand.   *)
(***************************************************************************)
Requests == {1, 2}

TitledPage == Page(<<"T", "i", "t", "l", "e">>, Rep("x", 60))

\* the page of the posted URL and of every search result
TwoSite ==
    [u \in {UrlContent, NewsLink(1), NewsLink(2), OrganicLink(1)} |->
        IF u = NewsLink(2) THEN FailedPage
        ELSE IF u = UrlContent THEN TitledPage
        ELSE TextPage(u)]

TwoBodies == {TextContent, UrlContent}

TwoAnswers ==
    {SerpFailure,
     SerpAnswer(<<NewsLink(1), NewsLink(2)>>, <<OrganicLink(1)>>),
     SerpAnswer(<<NewsLink(2)>>, <<OrganicLink(1)>>)}

TwoReplies ==
    {GroqRaise(<<"Connection error.">>),
     GroqText(<<Fence, Lang,
                ObjectDoc(Fields(JStr(<<"t", "r", "u", "e">>), JInt(150), JStr(<<"x">>))),
                Fence>>),
     GroqText(<<ObjectDoc(Fields(JNull, JInt(85), JStr(<<"x">>)))>>)}

\* a request that has been posted and not yet handled
NewRequest(body, answer, reply) ==
    [pc |-> "idle", body |-> body, answer |-> answer, reply |-> reply,
     content |-> <<>>, main_content |-> <<>>, is_url |-> FALSE,
     extraction_failed |-> FALSE, related_articles |-> <<>>, tried |-> 0,
     waiting |-> 0, related_contents |-> <<>>, evidence_links |-> <<>>,
     response |-> NoResponse]

TwoInit ==
    /\ PInit
    /\ QIdle
    /\ s_num = 0
    /\ s_answer = SerpFailure
    /\ s_result = <<>>
    /\ s_calls = 0
    /\ site = TwoSite
    /\ tasks = <<>>
    /\ queue = <<>>
    /\ batch = NoBatch
    /\ reqs \in [Requests -> { NewRequest(b, a, g) :
                                  b \in TwoBodies, a \in TwoAnswers, g \in TwoReplies }]

\* the result of a future that is not the awaited one: the latest finished
\* extraction of any request
AwaitedResultMutLatest(r) ==
    LET done == {t \in 1..Len(tasks) : tasks[t].st = "done"}
    IN tasks[CHOOSE t \in done : \A o \in done : o <= t].result

\* extract.py lines 42-50: the awaited future gives the result of the work
\* item this call submitted
AwaitedResult(r) == tasks[reqs[r].waiting].result

\* models.py lines 20-38
ReqReceive(r) ==
    /\ reqs[r].pc = "idle"
    /\ LET request == VerifyRequest(reqs[r].body)
       IN reqs' = [reqs EXCEPT
                      ![r].content = IF request.ok THEN request.v ELSE @,
                      ![r].pc = IF request.ok THEN "resolve" ELSE "done",
                      ![r].response = IF request.ok THEN @
                                      ELSE ResponseError(422, request.err)]
    /\ UNCHANGED <<pvars, qvars, xvars, svars>>

\* main.py lines 126-131, step 1 for text
ReqResolveText(r) ==
    /\ reqs[r].pc = "resolve"
    /\ ~IsUrl(reqs[r].content)
    /\ reqs' = [reqs EXCEPT ![r].main_content = reqs[r].content,
                            ![r].is_url = FALSE,
                            ![r].extraction_failed = FALSE,
                            ![r].pc = "search"]
    /\ UNCHANGED <<pvars, qvars, xvars, svars>>

\* main.py line 134 with extract.py lines 37-46: the posted URL's extraction
\* is submitted to the pool and awaited
ReqResolveSubmit(r) ==
    /\ reqs[r].pc = "resolve"
    /\ IsUrl(reqs[r].content)
    /\ tasks' = Append(tasks, Submitted(reqs[r].content))
    /\ queue' = Append(queue, Len(tasks) + 1)
    /\ reqs' = [reqs EXCEPT ![r].waiting = Len(tasks) + 1,
                            ![r].is_url = TRUE,
                            ![r].pc = "resolving"]
    /\ UNCHANGED <<pvars, qvars, site, batch, svars>>

\* main.py lines 134-144: the extraction has returned
ReqResolveResume(r) ==
    /\ reqs[r].pc = "resolving"
    /\ tasks[reqs[r].waiting].st = "done"
    /\ LET text == AwaitedResult(r)
           meaningful == Truthy(text) /\ Len(text.s) > MeaningfulLen
       IN reqs' = [reqs EXCEPT
                      ![r].main_content = IF meaningful THEN text.s
                                          ELSE Placeholder(reqs[r].content),
                      ![r].extraction_failed = ~meaningful,
                      ![r].waiting = 0,
                      ![r].pc = "search"]
    /\ UNCHANGED <<pvars, qvars, xvars, svars>>

\* main.py lines 153-185, step 2
ReqSearch(r) ==
    /\ reqs[r].pc = "search"
    /\ LET articles == SearchRelatedNews(NumResults, reqs[r].answer)
       IN reqs' = [reqs EXCEPT
                      ![r].related_articles = articles,
                      ![r].pc = IF Len(articles) = 0 THEN "analyze" ELSE "fetch"]
    /\ UNCHANGED <<pvars, qvars, xvars, svars>>

\* main.py line 189 with extract.py lines 37-46: the next candidate's
\* extraction is submitted to the pool and awaited
ReqFetchSubmit(r) ==
    /\ reqs[r].pc = "fetch"
    /\ tasks' = Append(tasks, Submitted(reqs[r].related_articles[reqs[r].tried + 1].url))
    /\ queue' = Append(queue, Len(tasks) + 1)
    /\ reqs' = [reqs EXCEPT ![r].waiting = Len(tasks) + 1,
                            ![r].pc = "fetching"]
    /\ UNCHANGED <<pvars, qvars, site, batch, svars>>

\* main.py lines 189-200: the candidate's extraction has returned
ReqFetchResume(r) ==
    /\ reqs[r].pc = "fetching"
    /\ tasks[reqs[r].waiting].st = "done"
    /\ LET article == reqs[r].related_articles[reqs[r].tried + 1]
           article_text == AwaitedResult(r)
           last == reqs[r].tried + 1 = Len(reqs[r].related_articles)
       IN reqs' = [reqs EXCEPT
                      ![r].related_contents =
                          IF KeepArticle(article_text)
                          THEN Append(@, [url |-> article.url,
                                          source |-> article.source,
                                          text |-> Slice(article_text.s, ArticleTextLen)])
                          ELSE @,
                      ![r].evidence_links =
                          IF KeepArticle(article_text) THEN Append(@, article.url) ELSE @,
                      ![r].tried = @ + 1,
                      ![r].waiting = 0,
                      ![r].pc = IF last THEN "analyze" ELSE "fetch"]
    /\ UNCHANGED <<pvars, qvars, xvars, svars>>

\* main.py lines 204-225 with groq_client.py lines 163-241, step 4
ReqAnalyze(r) ==
    /\ reqs[r].pc = "analyze"
    /\ reqs' = [reqs EXCEPT
                   ![r].response = RespondAnalysis(GroqVerifyNews(reqs[r].reply),
                                                   reqs[r].evidence_links),
                   ![r].pc = "done"]
    /\ UNCHANGED <<pvars, qvars, xvars, svars>>

TwoNext ==
    \/ \E r \in Requests : ReqReceive(r)
    \/ \E r \in Requests : ReqResolveText(r)
    \/ \E r \in Requests : ReqResolveSubmit(r)
    \/ \E r \in Requests : ReqResolveResume(r)
    \/ \E r \in Requests : ReqSearch(r)
    \/ \E r \in Requests : ReqFetchSubmit(r)
    \/ \E r \in Requests : ReqFetchResume(r)
    \/ \E r \in Requests : ReqAnalyze(r)
    \/ WorkerStart
    \/ \E t \in 1..Len(tasks) : WorkerFinish(t)

SpecTwo == TwoInit /\ [][TwoNext]_vars

(***************************************************************************)
(* Claims about the /verify request (checked under Spec)                   *)
(***************************************************************************)
Verdicts == {VerdictTrue, VerdictFalse, VerdictMisleading, VerdictUnverified}

\* the request has ended and the analysis collaborator returned text that
\* holds a JSON object with the three required members
ObjectReturned ==
    /\ pc = "done"
    /\ groq_reply.kind = "text"
    /\ JsonLoads(FenceContent(groq_reply.text)).ok
    /\ JsonLoads(FenceContent(groq_reply.text)).v.k = "object"
    /\ DOMAIN JsonLoads(FenceContent(groq_reply.text)).v.fields
          = {"verdict", "confidence", "summary"}

\* the member of that object
Returned(member) == JsonLoads(FenceContent(groq_reply.text)).v.fields[member]

\* a decimal integer literal, as int() reads one
IsIntLiteral(str) ==
    LET body == Strip(str)
        ds == IF Len(body) > 0 /\ body[1] \in {"+", "-"} THEN Tail(body) ELSE body
    IN Len(ds) > 0 /\ \A i \in 1..Len(ds) : IsDigit(ds[i])

\* a confidence value that is no number: null, an array, a string that is
\* no integer literal
NonNumeric(c) ==
    \/ c.t \in {"null", "array"}
    \/ c.t = "str" /\ ~IsIntLiteral(c.s)

\* C1: for every value the analysis collaborator returns in the confidence
\* field (negative, greater than 100, non-numeric, null) the confidence of
\* the response of /verify is an integer in 0..100; an out-of-range number
\* is clamped, a non-numeric value gives 0
C1_ConfidenceInRange ==
    /\ (pc = "done" /\ response.status = 200) => response.confidence \in 0..100
    /\ ObjectReturned =>
          LET c == Returned("confidence")
              served == Returned("verdict").t = "str" /\ Returned("summary").t = "str"
          IN /\ NonNumeric(c) => response.status = 200 /\ response.confidence = 0
             /\ (c.t = "int" /\ served) =>
                   /\ response.status = 200
                   /\ response.confidence =
                         IF c.n < 0 THEN 0 ELSE IF c.n > 100 THEN 100 ELSE c.n
             /\ (c.t = "float" /\ served) =>
                   /\ response.status = 200
                   /\ c.n < 0 => response.confidence = 0
                   /\ c.n > 1000 => response.confidence = 100

\* a confidence of 150 was returned and the response carries 100
C1_Witness ==
    /\ ObjectReturned
    /\ Returned("confidence") = JInt(150)
    /\ response.status = 200
    /\ response.confidence = 100

\* the verdict the claim expects for a returned verdict value
ExpectedVerdict(v) ==
    IF v.t = "str" /\ v.s \in Verdicts THEN v.s
    ELSE IF v.t = "str" /\ \E a \in Verdicts : Lower(a) = Lower(v.s)
         THEN CHOOSE a \in Verdicts : Lower(a) = Lower(v.s)
    ELSE VerdictUnverified

\* C2: for every verdict value the analysis collaborator returns the verdict
\* of the response of /verify is one of True, False, Misleading, Unverified:
\* an exact match is kept, a case-insensitive match is mapped to the
\* canonical spelling, anything else becomes Unverified, and no verdict
\* value makes the request fail
C2_VerdictNormalised ==
    (ObjectReturned /\ Returned("confidence") = JInt(85)
                    /\ Returned("summary").t = "str")
        => /\ response.status = 200
           /\ response.verdict \in Verdicts
           /\ response.verdict = ExpectedVerdict(Returned("verdict"))

\* the successful candidates' URLs, in the order search returned them
RECURSIVE ExtractedUrls(_)
ExtractedUrls(k) ==
    IF k = 0 THEN <<>>
    ELSE IF Truthy(article_texts[k])
         THEN Append(ExtractedUrls(k - 1), related_articles[k].url)
         ELSE ExtractedUrls(k - 1)

\* a is b with some of its elements left out
RECURSIVE IsSubsequence(_, _)
IsSubsequence(a, b) ==
    IF Len(a) = 0 THEN TRUE
    ELSE IF Len(b) = 0 THEN FALSE
    ELSE IF Head(a) = Head(b) THEN IsSubsequence(Tail(a), Tail(b))
    ELSE IsSubsequence(a, Tail(b))

\* C3: in every response of /verify evidence_links has at most 5 entries,
\* every entry is the URL of a search candidate whose extraction returned
\* text during this request, and the entries are in the order search
\* returned the candidates
C3_EvidenceLinks ==
    (pc = "done" /\ response.status = 200)
        => /\ Len(response.evidence_links) <= 5
           /\ IsSubsequence(response.evidence_links,
                            ExtractedUrls(Len(article_texts)))

\* a response with five links after six candidates gave text
C3_Witness ==
    /\ pc = "done"
    /\ response.status = 200
    /\ Len(response.evidence_links) = 5
    /\ Len(ExtractedUrls(Len(article_texts))) > 5

C5_AlwaysAResponse ==
    (pc = "done" /\ response.status # 422)
        => /\ groq_reply.kind # "raise" => response.status = 200
           /\ response.status # 200 => groq_reply.kind = "raise"

\* C8: when the input is URL-shaped and its extraction returns nothing, text
\* of at most 50 characters, or raises, the request is marked degraded, the
\* query given to the search stage is the placeholder synthesized from the
\* URL's host and path, the search runs with that usable query and a
\* response is returned
C8_DegradedSearchUsesPlaceholder ==
    (pc \in {"fetch", "analyze", "done"} /\ is_url
        /\ ~(Truthy(extracted) /\ Len(extracted.s) > 50))
        => /\ extraction_failed
           /\ search_query = Placeholder(content)
           /\ serp_q.some /\ Len(serp_q.s) > 0
           /\ (ObjectReturned /\ Returned("verdict").t = "str"
                  /\ Returned("summary").t = "str") => response.status = 200

(***************************************************************************)
(* Claims about the thread pool (checked under SpecBatch and FairSpecPool) *)
(***************************************************************************)
\* the text extract_from_url gives for the article of url
ArticleText(url) ==
    <<"H", "E", "A", "D", "L", "I", "N", "E", ":", " ", "T", "\n", "\n",
      "b", "o", "d", "y", " ">> \o url

\* C6: for a batch of N distinct URLs given to extract_multiple where any
\* subset of the extractions raises or fails, the returned mapping has
\* exactly N entries, one per input URL; exactly the failing URLs map to
\* None and every succeeding URL maps to its own extracted text, whatever
\* the order in which the extractions complete
C6_BatchIsolation ==
    batch.st = "done" =>
        /\ DOMAIN batch.result = {batch.urls[i] : i \in 1..Len(batch.urls)}
        /\ Cardinality(DOMAIN batch.result) = Len(batch.urls)
        /\ \A u \in DOMAIN batch.result :
              IF site[u] = TextPage(u)
              THEN batch.result[u] = Some(ArticleText(u))
              ELSE batch.result[u] = None

\* a batch of three URLs has returned, one unreachable, one serving nothing
\* and one serving its article
C6_Witness ==
    /\ batch.st = "done"
    /\ Len(batch.urls) = 3
    /\ \E u, v, w \in DOMAIN batch.result :
          /\ site[u] = FailedPage /\ batch.result[u] = None
          /\ site[v] = Page(<<>>, <<>>) /\ batch.result[v] = None
          /\ batch.result[w] = Some(ArticleText(w))

MaxWords == 3

WordKinds == {"plain", "http", "https", "www"}

WordLens == {3, 70, 160}

Separators == {<<" ">>, <<"\n", "\n">>}

WordOf(kind, n) ==
    CASE kind = "plain" -> Rep("a", n)
      [] kind = "http"  -> HttpPrefix \o Rep("b", n)
      [] kind = "https" -> HttpsPrefix \o Rep("c", n)
      [] kind = "www"   -> WwwPrefix \o Rep("d", n)

WordSpecs == WordKinds \X WordLens

QueryContents ==
    { Join([i \in 1..Len(ws) |-> WordOf(ws[i][1], ws[i][2])], sep) :
        <<ws, sep>> \in (UNION { [1..k -> WordSpecs] : k \in 1..MaxWords })
                        \X Separators }

QInit ==
    /\ PInit
    /\ XIdle
    /\ TIdle
    /\ q_content \in QueryContents
    /\ q_result = <<>>
    /\ q_calls = 0

\* one call of _prepare_search_query on the content drawn by QInit
PrepareCall ==
    /\ q_calls = 0
    /\ q_result' = PrepareSearchQuery(q_content)
    /\ q_calls' = 1
    /\ UNCHANGED <<q_content, pvars, xvars, reqs, svars>>

QNext == PrepareCall

SpecQuery == QInit /\ [][QNext]_vars

(***************************************************************************)
(* Claims about query preparation (checked under SpecQuery)                *)
(***************************************************************************)
\* a whitespace-separated token that starts with http://, https:// or www.
HasUrlToken(s) ==
    \E i \in 1..Len(s) :
        /\ i = 1 \/ IsWs(s[i-1])
        /\ \E p \in {HttpPrefix, HttpsPrefix, WwwPrefix} :
              /\ i + Len(p) - 1 <= Len(s)
              /\ SubSeq(s, i, i + Len(p) - 1) = p

\* C9: for every input content, the output of query preparation has at most
\* 150 characters and holds no whitespace-separated token that starts with
\* http://, https:// or www.
C9_QueryBoundedNoUrl ==
    q_calls = 1 => /\ Len(q_result) <= 150
                   /\ ~HasUrlToken(q_result)

\* a content with URL tokens whose URL-stripped query is longer than 150
\* characters has been prepared into a non-empty query
C9_Witness ==
    /\ q_calls = 1
    /\ HasUrlToken(q_content)
    /\ Len(StripUrls(q_content)) > 150
    /\ Len(q_result) > 0

\* out is s cut at a whitespace boundary of s: a prefix of s that ends where
\* s ends or where s has a space, so that every word of out is a whole word
\* of s
CutAtWordBoundary(out, s) ==
    /\ Len(out) <= Len(s)
    /\ out = SubSeq(s, 1, Len(out))
    /\ Len(out) = Len(s) \/ s[Len(out) + 1] = " "
    /\ Split(out) = SubSeq(Split(s), 1, Len(Split(out)))

\* C10: query preparation never truncates mid-word: whenever the
\* URL-stripped query exceeds 150 characters the output ends at a whitespace
\* boundary of that query, so every word of the output is a complete word of
\* the query, also when the first 150 characters hold no space
C10_NeverMidWord ==
    (q_calls = 1 /\ Len(StripUrls(q_content)) > 150)
        => CutAtWordBoundary(q_result, StripUrls(q_content))

(***************************************************************************)
(* Claims about the handling of the model's text (checked under Spec)      *)
(***************************************************************************)
\* the summary of the parse fallback, groq_client.py line 228
ParseFailedSummary == <<"Unable to verify: AI response parsing failed">>

\* a text that is not JSON: it holds no JSON document at all, or it has no
\* code fence and is not one JSON document
NotJsonText(text) ==
    \/ \A i \in 1..Len(text) : text[i].p # "doc"
    \/ ~HasFence(text) /\ ~(Len(text) = 1 /\ text[1].p = "doc")

\* C11: when the analysis collaborator returns text that is not JSON, the
\* result is verdict Unverified, confidence 0 and a summary stating that
\* parsing failed, and the request still completes successfully
C11_NonJsonFallback ==
    (pc = "done" /\ groq_reply.kind = "text" /\ NotJsonText(groq_reply.text))
        => /\ response.status = 200
           /\ response.verdict = VerdictUnverified
           /\ response.confidence = 0
           /\ response.summary = ParseFailedSummary

\* the collaborator answered with prose inside a code fence and the request
\* was answered 200 with the parse-failure summary
C11_Witness ==
    /\ pc = "done"
    /\ groq_reply = GroqText(<<Fence, Lang, Prose, Fence>>)
    /\ response.status = 200
    /\ response.summary = ParseFailedSummary

(***************************************************************************)
(* Claims about the validation of the request (checked under Spec)         *)
(***************************************************************************)
\* the handler of /verify has been entered with the request
InPipeline ==
    \/ pc \in {"resolve", "search", "fetch", "analyze"}
    \/ pc = "done" /\ response.status # 422

\* C12: every request handed to the pipeline has content that, after
\* trimming, is non-empty and between 10 and 10000 characters long; content
\* outside these bounds is rejected before any pipeline stage runs
C12_TrimmedLengthBounds ==
    /\ InPipeline => /\ content = Strip(raw)
                     /\ Len(content) > 0
                     /\ Len(content) >= 10
                     /\ Len(content) <= 10000
    /\ (pc # "idle" /\ (Len(Strip(raw)) < 10 \/ Len(Strip(raw)) > 10000))
          => /\ pc = "done"
             /\ response.status = 422
             /\ serp_q = None
             /\ groq_reply = NoReply

(***************************************************************************)
(* Claims about concurrent requests (checked under SpecTwo)                *)
(***************************************************************************)
\* the URLs of the articles whose page gives text
RECURSIVE LinksWithText(_)
LinksWithText(articles) ==
    IF Len(articles) = 0 THEN <<>>
    ELSE LET rest == LinksWithText(SubSeq(articles, 1, Len(articles) - 1))
             last == articles[Len(articles)]
         IN IF Truthy(ExtractFromUrl(site[last.url]))
            THEN Append(rest, last.url) ELSE rest

\* the response of a request run alone on the body posted and the answers
\* of the collaborators
AloneResponse(body, answer, reply) ==
    LET request == VerifyRequest(body)
    IN IF ~request.ok THEN ResponseError(422, request.err)
       ELSE RespondAnalysis(GroqVerifyNews(reply),
                            LinksWithText(SearchRelatedNews(NumResults, answer)))

\* C13: no mutable state is shared between concurrent verification
\* requests: for any interleaving of two /verify requests each request's
\* response equals the response it produces when run alone with the same
\* collaborator answers
C13_RequestsIndependent ==
    \A r \in DOMAIN reqs :
        reqs[r].pc = "done"
            => reqs[r].response =
                  AloneResponse(reqs[r].body, reqs[r].answer, reqs[r].reply)

\* both requests have ended after their extractions were in the pool at the
\* same time, with different evidence links
C13_Witness ==
    /\ DOMAIN reqs = {1, 2}
    /\ reqs[1].pc = "done" /\ reqs[2].pc = "done"
    /\ reqs[1].response.status = 200 /\ reqs[2].response.status = 200
    /\ reqs[1].response.evidence_links = <<NewsLink(1), OrganicLink(1)>>
    /\ reqs[2].response.evidence_links = <<OrganicLink(1)>>
    /\ Len(tasks) >= 5
    /\ \E t \in 1..(Len(tasks) - 1) : tasks[t].url # tasks[t + 1].url

(***************************************************************************)
(* Claims about the order of the stages (checked under Spec)               *)
(***************************************************************************)
\* the position of a stage in the pipeline
StageRank(at) ==
    CASE at = "idle" -> 0
      [] at = "resolve" -> 1
      [] at = "search" -> 2
      [] at = "fetch" -> 3
      [] at = "analyze" -> 4
      [] at = "done" -> 5

\* C14: within one request the stages run strictly in the order Resolve,
\* Gather, Fetch, Build, Analyze, Aggregate: search starts only after
\* content resolution has finished, no candidate extraction starts before
\* search has returned its full list, and the analysis collaborator is
\* called only after every candidate extraction has finished
C14_StagesInOrder ==
    [][ /\ StageRank(pc') >= StageRank(pc)
        /\ serp_q' # serp_q =>
              /\ pc = "search"
              /\ main_content # <<>>
              /\ is_url => extracted' = extracted
        /\ article_texts' # article_texts =>
              /\ serp_q.some
              /\ related_articles' = related_articles
              /\ groq_reply = NoReply
        /\ (groq_reply' # groq_reply \/ prompt' # prompt) =>
              /\ serp_q.some
              /\ Len(article_texts) = Len(related_articles)
              /\ article_texts' = article_texts
              /\ Len(prompt'.sources) = MinNat(5, Len(related_contents))
        /\ response' # response =>
              \/ pc = "idle" /\ response'.status = 422
              \/ pc = "analyze" /\ groq_reply' # NoReply ]_vars

\* a request has ended after a search that gave three candidates, their
\* extractions and the analysis
C14_Witness ==
    /\ pc = "done"
    /\ is_url
    /\ Len(related_articles) = 3
    /\ Len(article_texts) = 3
    /\ groq_reply.kind = "text"
    /\ response.status = 200

(***************************************************************************)
(* Claims about malformed and fenced model responses (checked under Spec)  *)
(***************************************************************************)
\* the analysis collaborator returned text that parses as JSON
ParsedReply ==
    /\ pc = "done"
    /\ groq_reply.kind = "text"
    /\ JsonLoads(FenceContent(groq_reply.text)).ok

\* the JSON document of that text
ParsedDoc == JsonLoads(FenceContent(groq_reply.text)).v

\* the document lacks a required key, or its confidence is no number
MalformedDoc(doc) ==
    \/ doc.k # "object"
    \/ \E f \in {"verdict", "confidence", "summary"} : f \notin DOMAIN doc.fields
    \/ NonNumeric(doc.fields["confidence"])

\* C15: a model response that parses as JSON but lacks any of the keys
\* verdict, confidence, summary, or whose confidence is non-numeric, yields
\* the malformed-response fallback: verdict Unverified, confidence 0 and a
\* summary stating that parsing failed
C15_MalformedFallback ==
    (ParsedReply /\ MalformedDoc(ParsedDoc))
        => /\ response.status = 200
           /\ response.verdict = VerdictUnverified
           /\ response.confidence = 0
           /\ response.summary = ParseFailedSummary

\* the first JSON document of the text
FirstDoc(text) ==
    text[CHOOSE i \in 1..Len(text) :
            text[i].p = "doc" /\ \A j \in 1..(i-1) : text[j].p # "doc"]

\* the text wraps a JSON document in a code fence: prose may come first,
\* then the fence, a language tag or none, and the document
WrapsInFence(text) ==
    \E i \in 1..Len(text) :
        /\ text[i].p = "fence"
        /\ \A j \in 1..(i-1) : text[j].p = "prose"
        /\ \/ i + 1 <= Len(text) /\ text[i+1].p = "doc"
           \/ /\ i + 2 <= Len(text)
              /\ text[i+1].p \in {"lang", "tag"}
              /\ text[i+2].p = "doc"

\* C16: when the model response contains a code-fence marker only the
\* content of the fenced block is parsed, so a response wrapping a JSON
\* object in a fence gives the same result as the bare JSON object; a fenced
\* object with verdict "true" and confidence 150 gives verdict True and
\* confidence 100
C16_FencedSameAsBare ==
    (pc = "done" /\ groq_reply.kind = "text" /\ WrapsInFence(groq_reply.text))
        => LET doc == FirstDoc(groq_reply.text)
           IN /\ response =
                    RespondAnalysis(GroqVerifyNews(GroqText(<<doc>>)), evidence_links)
              /\ doc = ObjectDoc(Fields(JStr(<<"t", "r", "u", "e">>), JInt(150),
                                        JStr(<<"x">>)))
                    => /\ response.status = 200
                       /\ response.verdict = VerdictTrue
                       /\ response.confidence = 100

(***************************************************************************)
(* Claims about extract_from_url (checked under SpecExtract)               *)
(***************************************************************************)
\* the text the claim expects for a page with a body: the body, with the
\* headline line before it when the page has a title
ExpectedArticle(page) ==
    IF Len(page.title) > 0
    THEN <<"H", "E", "A", "D", "L", "I", "N", "E", ":", " ">> \o page.title
            \o <<"\n", "\n">> \o page.text
    ELSE page.text

\* C17: extract_from_url never raises and returns None on every network
\* failure, parse failure and empty-content outcome (a page whose body text
\* is empty), and otherwise returns the body text with "HEADLINE: <title>"
\* prepended when a title exists
C17_ExtractFromUrl ==
    (Len(tasks) = 1 /\ tasks[1].st = "done" /\ DOMAIN site = {Url(1)})
        => LET page == site[Url(1)]
               result == tasks[1].result
           IN IF page.kind = "raise" \/ Len(Strip(page.text)) = 0
              THEN result = None
              ELSE result = Some(Strip(ExpectedArticle(page)))

(***************************************************************************)
(* Claims about search_related_news (checked under SpecSearch)             *)
(***************************************************************************)
\* the entries of the result taken from news_results, from organic_results
NewsEntries(result) == SelectSeq(result, LAMBDA a : a.source = "source")

OrganicEntries(result) == SelectSeq(result, LAMBDA a : a.source = "displayed_link")

\* the links of entries are the first links of items, in order
IsPrefixOf(entries, items) ==
    /\ Len(entries) <= Len(items)
    /\ \A i \in 1..Len(entries) : entries[i].url = items[i]

\* C18: search_related_news returns at most num_results candidates, with
\* all news-result entries before any organic-result entry; organic results
\* are used only when fewer than num_results news results were returned and
\* only as many as fill the remainder; on any collaborator failure it
\* returns an empty list and never raises
C18_SearchResults ==
    s_calls = 1 =>
        IF s_answer.kind = "raise" THEN s_result = <<>>
        ELSE /\ Len(s_result) <= s_num
             /\ s_result = NewsEntries(s_result) \o OrganicEntries(s_result)
             /\ IsPrefixOf(NewsEntries(s_result), s_answer.news)
             /\ IsPrefixOf(OrganicEntries(s_result), s_answer.organic)
             /\ Len(OrganicEntries(s_result)) > 0 => Len(s_answer.news) < s_num
             /\ Len(s_result) < s_num =>
                   Len(s_result) = Len(s_answer.news) + Len(s_answer.organic)

\* a call limited to fewer entries than the collaborator gave has returned
\* all the news results and organic results for the remainder only
C18_Witness ==
    /\ s_calls = 1
    /\ s_answer.kind = "ok"
    /\ Len(s_answer.news) + Len(s_answer.organic) > s_num
    /\ Len(s_result) = s_num
    /\ Len(NewsEntries(s_result)) = Len(s_answer.news)
    /\ Len(OrganicEntries(s_result)) > 0

(***************************************************************************)
(* Claims about the evidence links and the prompt (checked under Spec)     *)
(***************************************************************************)
\* the URLs of the sources written into the prompt, in order
PromptUrls == [i \in 1..Len(prompt.sources) |-> prompt.sources[i].url]

\* C19: for every request that reaches the analysis stage the
\* evidence_links of the response are exactly the URLs of the sources
\* written into the verification prompt, in the same order: both are the
\* first five successfully extracted candidates, also when the model
\* response is malformed and the fallback result is returned
C19_LinksMatchPrompt ==
    (pc = "done" /\ groq_reply # NoReply /\ response.status = 200)
        => /\ response.evidence_links = PromptUrls
           /\ response.evidence_links =
                 SubSeq(ExtractedUrls(Len(article_texts)), 1,
                        MinNat(5, Len(ExtractedUrls(Len(article_texts)))))

\* six candidates gave text, the model's text was no JSON, and the fallback
\* response carries the five links of the prompt
C19_Witness ==
    /\ pc = "done"
    /\ groq_reply = GroqText(<<Prose>>)
    /\ response.status = 200
    /\ response.summary = ParseFailedSummary
    /\ Len(ExtractedUrls(Len(article_texts))) = 6
    /\ Len(response.evidence_links) = 5
    /\ Len(prompt.sources) = 5

=============================================================================
